---- MODULE Spec2Model ----
(***************************************************************************)
(* zlock: an X11 screen locker (src/src/main.rs).                          *)
(*                                                                         *)
(* The model follows one process from main() to its exit: lock_screen()    *)
(* (connect, draw_win, init_cursor, the two grabs, flush), authenticate()  *)
(* with the input loop of InputHandler::get_input, and Drop for Lock.      *)
(* The program counter pc stops at every place where the code talks to    *)
(* the X server, to PAM or to the clock; one action is the code between    *)
(* two such places.  The X server, the keyboard and PAM are the            *)
(* environment: what they answer is chosen with \E.                        *)
(***************************************************************************)
EXTENDS Integers, Sequences, FiniteSets, TLC

(***************************************************************************)
(* Program constants.                                                      *)
(***************************************************************************)
MAX_BUF_SIZE == 100

\* color::rgb, and the three colours built with it.
rgb(r, g, b) == (r * 65536) + (g * 256) + b
CYAN == rgb(0, 255, 255)
RED == rgb(255, 0, 0)
BLACK == rgb(0, 0, 0)
\* The overlay before the first fill: nothing of ours has been painted.
Unpainted == -1

(***************************************************************************)
(* Bounds of the model.  The keyboard may type any character, but once a   *)
(* character other than BaseChar is in the buffer at most MaxTail          *)
(* characters are typed from that one on (counting it) until the buffer    *)
(* is emptied or shortened again.  Buffers are therefore a run of BaseChar *)
(* of any length followed by at most MaxTail arbitrary characters.  The    *)
(* buffer operations applied on their own (BufSpec) go on to MaxBufTail.   *)
(***************************************************************************)
MaxTail == 1
MaxBufTail == 2

(***************************************************************************)
(* Characters are Unicode scalar values.                                   *)
(***************************************************************************)
\* char::len_utf8, which String::push adds to String::len.
len_utf8(c) == IF c < 128 THEN 1 ELSE IF c < 2048 THEN 2 ELSE IF c < 65536 THEN 3 ELSE 4

\* String::len of the buffer: bytes, not characters.
RECURSIVE buf_len(_)
buf_len(b) == IF b = <<>> THEN 0 ELSE len_utf8(b[Len(b)]) + buf_len(SubSeq(b, 1, Len(b) - 1))

(***************************************************************************)
(* InputHandler: the credential buffer.                                    *)
(***************************************************************************)
clear_keep(b) == b
clear(b) == <<>>

push_char_keep(b, c) == Append(b, c)
push_char(b, c) == Append(IF buf_len(b) = MAX_BUF_SIZE THEN clear(b) ELSE b, c)

pop_char_all(b) == <<>>
pop_char(b) == IF b = <<>> THEN <<>> ELSE SubSeq(b, 1, Len(b) - 1)

get_str(b) == b

(***************************************************************************)
(* Keysyms (their X11 values) and what the xkb keysym type answers about   *)
(* them at the two places get_input asks.                                  *)
(***************************************************************************)
NoSymbol == 0
XK_BackSpace == 65288
XK_Return == 65293
XK_Escape == 65307
XK_F1 == 65470
XK_Control_L == 65507
XK_a == 97
XK_eacute == 233
XK_EuroSign == 8364
XK_U1F600 == 16905728

\* Keysym::is_modifier_key: Shift_L..Hyper_R, ISO_Lock..ISO_Level5_Lock,
\* Mode_switch, Num_Lock.
is_modifier_key(sym) ==
    \/ sym \in 65505..65518
    \/ sym \in 65025..65043
    \/ sym \in {65406, 65407}

\* Keysym::key_char: the approximate ASCII (Latin-1) character of a
\* keysym, NoChar for None.  A keysym whose high bytes are zero is its low
\* byte, NoSymbol's NUL included; KP_Space is the space; BackSpace..Clear,
\* Return, Escape, Delete, KP_Tab, KP_Enter, KP_Multiply..KP_9 and
\* KP_Equal are their low 7 bits; every other keysym has no character,
\* the function keys, EuroSign and the Unicode keysyms among them.
NoChar == -1
key_char(sym) ==
    IF sym \in 0..255 THEN sym
    ELSE IF sym = 65408 THEN 32
    ELSE IF \/ sym \in 65288..65291
            \/ sym \in {65293, 65307, 65535, 65417, 65421, 65469}
            \/ sym \in 65450..65465
    THEN sym % 128
    ELSE NoChar

\* The characters push_char is given in BufSpec: one of each UTF-8 width
\* (a, e-acute, the euro sign, U+1F600).  The keyboard of the session
\* types those of them, and of NUL, that key_char gives for its keys.
BaseChar == key_char(XK_a)
Chars == {BaseChar, 233, 8364, 128512}

(***************************************************************************)
(* The keyboard: the key codes of the device and its layout.               *)
(***************************************************************************)
KC_Escape == 9
KC_BackSpace == 22
KC_Return == 36
KC_a == 38
KC_eacute == 39
KC_Euro == 40
KC_Emoji == 41
KC_Control == 37
KC_F1 == 67
KC_Unmapped == 255
Codes == {KC_Escape, KC_BackSpace, KC_Return, KC_a, KC_eacute, KC_Euro, KC_Emoji,
          KC_Control, KC_F1, KC_Unmapped}

\* The layout compiled from the device: the keysym of a code.  Control is
\* the modifier of the model; it selects no other level of the layout.
Keymap(code) ==
    CASE code = KC_Escape -> XK_Escape
      [] code = KC_BackSpace -> XK_BackSpace
      [] code = KC_Return -> XK_Return
      [] code = KC_a -> XK_a
      [] code = KC_eacute -> XK_eacute
      [] code = KC_Euro -> XK_EuroSign
      [] code = KC_Emoji -> XK_U1F600
      [] code = KC_Control -> XK_Control_L
      [] code = KC_F1 -> XK_F1
      [] OTHER -> NoSymbol

(***************************************************************************)
(* Keyb: the xkb state.  Only modifiers are state: the depressed ones, the *)
(* locked ones and, for each modifier key, how many presses of it are not  *)
(* yet released (xkb keeps the modifier depressed until the last of them   *)
(* is).                                                                    *)
(***************************************************************************)
ModKeys == {code \in Codes : is_modifier_key(Keymap(code))}
NoPresses == [code \in ModKeys |-> 0]

\* A modifier key is pressed again, without a release in between, at most
\* until MaxPress presses of it are outstanding.
MaxPress == 2
Pressable(k, code) == code \in ModKeys => k.presses[code] < MaxPress

NoKeyb == [built |-> FALSE, depressed |-> {}, presses |-> NoPresses, locked |-> {}]

\* What the device may report when the state is built from it: the
\* modifiers held at that moment, with no press of ours behind them, and
\* the locked ones: CapsLock, which capitalises the keysyms resolved, and
\* NumLock, which selects levels of keypad keys only, of which the layout
\* has none.
LockMods == {"CapsLock", "NumLock"}
DeviceStates ==
    {[built |-> TRUE, depressed |-> d, presses |-> NoPresses, locked |-> l] :
        d \in SUBSET ModKeys, l \in SUBSET LockMods}

\* Keyb::clear_mod_state: depressed (and latched) cleared, locked kept.
clear_mod_state_keep(state) == state
clear_mod_state(state) == [state EXCEPT !.depressed = {}]

\* Keyb::new, after the XKB extension was found.
Keyb_new(dev) == clear_mod_state(dev)

\* Keyb::update: xkb's update_key.  A press of a modifier key counts; a
\* release takes one press back and the modifier is no longer depressed
\* when none is left; a release with no press behind it changes nothing.
update_release_only(k, code, dir) ==
    IF code \in ModKeys /\ dir = "Up" /\ k.presses[code] > 0
    THEN [k EXCEPT !.presses[code] = @ - 1,
                   !.depressed = IF k.presses[code] = 1 THEN @ \ {code} ELSE @]
    ELSE k
update(k, code, dir) ==
    IF code \notin ModKeys THEN k
    ELSE IF dir = "Down"
    THEN [k EXCEPT !.presses[code] = @ + 1, !.depressed = @ \cup {code}]
    ELSE IF k.presses[code] > 0
    THEN [k EXCEPT !.presses[code] = @ - 1,
                   !.depressed = IF k.presses[code] = 1 THEN @ \ {code} ELSE @]
    ELSE k

\* The upper case of a keysym, as xkb's key_get_one_sym applies it under
\* CapsLock: the Latin-1 letters a..z, agrave..odiaeresis and
\* oslash..thorn move to their capitals, every other keysym of the layout
\* stays.
to_upper(sym) ==
    IF sym \in 97..122 \/ sym \in 224..246 \/ sym \in 248..254 THEN sym - 32 ELSE sym

\* Keyb::keycode_to_keysym: xkb's key_get_one_sym.  The layout has one
\* level, so the only state that tells is a locked CapsLock.
keycode_to_keysym(k, code) ==
    IF "CapsLock" \in k.locked THEN to_upper(Keymap(code)) ELSE Keymap(code)

(***************************************************************************)
(* State.                                                                  *)
(*   pc         where the process is                                       *)
(*   result     "none" while running, "ok" once authenticate returned      *)
(*              Ok(()), "err" once an Err or a panic ends main             *)
(*   fault      what failed, "none" if nothing did                         *)
(*   xlog       the requests sent to the X server during lock_screen and   *)
(*              in drop, in order, with the Expose event where it arrived  *)
(*   held       what the X server holds for this client: "window", "gc",   *)
(*              "mapped" (the window is mapped), "cursor", "pointer" and   *)
(*              "keyboard" (the two grabs)                                 *)
(*   unflushed  requests are buffered in the connection and not yet sent   *)
(*   colour     the colour last filled into the overlay                    *)
(*   keyb, buf  InputHandler's fields                                      *)
(*   verdict    the answer of pam_client.authenticate() being acted on     *)
(*   lastSym    the keysym of the last KeyPress get_input resolved         *)
(*   dropCount  how often Drop::drop ran                                   *)
(* History of BufSpec, read by the properties only:                        *)
(*   lastOp     the last operation applied to the buffer, its argument     *)
(*              and the buffer it was applied to                           *)
(*   pushes     the characters pushed since the buffer was last empty,     *)
(*              while tracked                                              *)
(*   tracked    only pushes, and no more than MAX_BUF_SIZE of them, since  *)
(*              the buffer was last empty                                  *)
(***************************************************************************)
VARIABLES pc, result, fault, xlog, held, unflushed, colour, keyb, buf, verdict,
          lastSym, dropCount, lastOp, pushes, tracked

xvars == <<xlog, held, unflushed>>
ivars == <<keyb, buf, verdict>>
hvars == <<lastOp, pushes, tracked>>
vars == <<pc, result, fault, xlog, held, unflushed, colour, keyb, buf, verdict,
          lastSym, dropCount, lastOp, pushes, tracked>>

(***************************************************************************)
(* The order of the calls in draw_win and in lock_screen.                  *)
(***************************************************************************)
draw_win_steps ==
    <<"create_window", "create_gc", "map_window", "flush_map", "wait_expose", "fill">>

lock_screen_grab_first ==
    <<"connect", "grab_cursor", "grab_keyboard">> \o draw_win_steps
        \o <<"init_cursor", "flush_grabs">>
lock_screen_steps ==
    <<"connect">> \o draw_win_steps
        \o <<"init_cursor", "grab_cursor", "grab_keyboard", "flush_grabs">>

\* The step after `step`; after the last one lock_screen returns Ok(lock)
\* and main calls authenticate.
after(step) ==
    LET i == CHOOSE j \in 1..Len(lock_screen_steps) : lock_screen_steps[j] = step
    IN  IF i < Len(lock_screen_steps) THEN lock_screen_steps[i + 1] ELSE "auth_start"

\* Where control goes when main is left, by return or by unwinding: a Lock
\* that exists is dropped first.
on_exit_leak(hasLock) == "exited"
on_exit(hasLock) == IF hasLock THEN "drop" ELSE "exited"

\* matches!(event, Expose(_)) in draw_win's wait loop.
is_expose(ev) == ev = "Expose"

\* `pam_client.authenticate().is_ok()`: the verdict that ends the loop.
is_ok_any(v) == TRUE
is_ok(v) == v = "Correct"

\* authenticate's `if !pass.is_empty()`: where the loop goes with the text
\* get_input came back with.
submit_unchecked(pass) == "verify"
submit(pass) == IF pass # <<>> THEN "verify" ELSE "enter"

\* No KeyPress has been resolved yet.
NoKey == -1

NoOp == [op |-> "none", arg |-> NoChar, before |-> <<>>]

Init ==
    /\ pc = "connect"
    /\ result = "none"
    /\ fault = "none"
    /\ xlog = <<>>
    /\ held = {}
    /\ unflushed = FALSE
    /\ colour = Unpainted
    /\ keyb = NoKeyb
    /\ buf = <<>>
    /\ verdict = "none"
    /\ lastSym = NoKey
    /\ dropCount = 0
    /\ lastOp = NoOp
    /\ pushes = <<>>
    /\ tracked = TRUE

\* An Err carried to main's expect, or a panic: main is left with `cause`.
Fail(cause) ==
    /\ pc' = on_exit(TRUE)
    /\ result' = "err"
    /\ fault' = cause

\* send_and_check_request: the request is sent and its answer awaited.
Checked(name, ok, got) ==
    /\ xlog' = Append(xlog, name)
    /\ unflushed' = FALSE
    /\ held' = IF ok THEN held \cup got ELSE held

(***************************************************************************)
(* lock_screen.                                                            *)
(***************************************************************************)
\* Lock::new.  A failed connect leaves no Lock behind.
Connect(ok) ==
    /\ pc = "connect"
    /\ IF ok
       THEN pc' = after("connect") /\ UNCHANGED <<result, fault>>
       ELSE pc' = on_exit(FALSE) /\ result' = "err" /\ fault' = "connect"
    /\ UNCHANGED <<xvars, colour, ivars, lastSym, dropCount, hvars>>

\* draw_win: the screen lookup and CreateWindow.
CreateWindow(scr, ok) ==
    /\ pc = "create_window"
    /\ IF ~scr
       THEN Fail("screen") /\ UNCHANGED xvars
       ELSE /\ Checked("CreateWindow", ok, {"window"})
            /\ IF ok THEN pc' = after(pc) /\ UNCHANGED <<result, fault>> ELSE Fail("xerror")
    /\ UNCHANGED <<colour, ivars, lastSym, dropCount, hvars>>

CreateGc(ok) ==
    /\ pc = "create_gc"
    /\ Checked("CreateGc", ok, {"gc"})
    /\ IF ok THEN pc' = after(pc) /\ UNCHANGED <<result, fault>> ELSE Fail("xerror")
    /\ UNCHANGED <<colour, ivars, lastSym, dropCount, hvars>>

MapWindow(ok) ==
    /\ pc = "map_window"
    /\ Checked("MapWindow", ok, {"mapped"})
    /\ IF ok THEN pc' = after(pc) /\ UNCHANGED <<result, fault>> ELSE Fail("xerror")
    /\ UNCHANGED <<colour, ivars, lastSym, dropCount, hvars>>

FlushMap(ok) ==
    /\ pc = "flush_map"
    /\ IF ok
       THEN pc' = after(pc) /\ unflushed' = FALSE /\ UNCHANGED <<result, fault>>
       ELSE Fail("xerror") /\ UNCHANGED unflushed
    /\ UNCHANGED <<xlog, held, colour, ivars, lastSym, dropCount, hvars>>

\* The loop `while !matches!(wait_for_event()?, Expose(_)) {}`.
WaitExpose(ev) ==
    /\ pc = "wait_expose"
    /\ IF ev = "Error"
       THEN Fail("event") /\ UNCHANGED xlog
       ELSE IF is_expose(ev)
       THEN pc' = after(pc) /\ xlog' = Append(xlog, ev) /\ UNCHANGED <<result, fault>>
       ELSE UNCHANGED <<pc, result, fault, xlog>>
    /\ UNCHANGED <<held, unflushed, colour, ivars, lastSym, dropCount, hvars>>

\* The first fill, with the black the graphics context was created with.
Fill(ok) ==
    /\ pc = "fill"
    /\ Checked("PolyFillRectangle", ok, {})
    /\ IF ok
       THEN pc' = after(pc) /\ colour' = BLACK /\ UNCHANGED <<result, fault>>
       ELSE Fail("xerror") /\ UNCHANGED colour
    /\ UNCHANGED <<ivars, lastSym, dropCount, hvars>>

\* init_cursor: CreatePixmap unchecked, CreateCursor checked, then
\* ChangeWindowAttributes unchecked.
InitCursor(ok) ==
    /\ pc = "init_cursor"
    /\ IF ok
       THEN /\ xlog' = xlog \o <<"CreatePixmap", "CreateCursor", "ChangeWindowAttributes">>
            /\ held' = held \cup {"cursor"}
            /\ unflushed' = TRUE
            /\ pc' = after(pc)
            /\ UNCHANGED <<result, fault>>
       ELSE /\ xlog' = xlog \o <<"CreatePixmap", "CreateCursor">>
            /\ unflushed' = FALSE
            /\ Fail("xerror")
            /\ UNCHANGED held
    /\ UNCHANGED <<colour, ivars, lastSym, dropCount, hvars>>

\* grab_cursor: GrabPointer is sent with send_request and its reply is
\* never read; `granted` is what the server decides.
GrabCursor(granted) ==
    /\ pc = "grab_cursor"
    /\ xlog' = Append(xlog, "GrabPointer")
    /\ held' = IF granted THEN held \cup {"pointer"} ELSE held
    /\ unflushed' = TRUE
    /\ pc' = after(pc)
    /\ UNCHANGED <<result, fault, colour, ivars, lastSym, dropCount, hvars>>

\* grab_keyboard: the same for GrabKeyboard.
GrabKeyboard(granted) ==
    /\ pc = "grab_keyboard"
    /\ xlog' = Append(xlog, "GrabKeyboard")
    /\ held' = IF granted THEN held \cup {"keyboard"} ELSE held
    /\ unflushed' = TRUE
    /\ pc' = after(pc)
    /\ UNCHANGED <<result, fault, colour, ivars, lastSym, dropCount, hvars>>

FlushGrabs(ok) ==
    /\ pc = "flush_grabs"
    /\ IF ok
       THEN pc' = after(pc) /\ unflushed' = FALSE /\ UNCHANGED <<result, fault>>
       ELSE Fail("xerror") /\ UNCHANGED unflushed
    /\ UNCHANGED <<xlog, held, colour, ivars, lastSym, dropCount, hvars>>

(***************************************************************************)
(* authenticate and InputHandler::get_input.                               *)
(***************************************************************************)
\* What becomes of a set_win_color: both requests and the flush accepted;
\* ChangeGc or PolyFillRectangle refused, and nothing painted; or both
\* accepted, the overlay painted, and the flush that follows failing.
PaintResults == {"ok", "refused", "flush_err"}

\* set_win_color: ChangeGc and PolyFillRectangle with
\* send_and_check_request, then flush.  What the overlay shows, what is
\* left in the connection, and whether Err is returned.
set_win_color_noflush(color, res) ==
    [colour |-> IF res = "refused" THEN colour ELSE color,
     unflushed |-> res = "ok",
     err |-> res # "ok"]
set_win_color(color, res) ==
    [colour |-> IF res = "refused" THEN colour ELSE color,
     unflushed |-> FALSE,
     err |-> res # "ok"]

\* The keyboard types a character only within the bound of the model.
TailLen(b) ==
    LET odd == {i \in 1..Len(b) : b[i] # BaseChar}
    IN  IF odd = {} THEN 0 ELSE Len(b) + 1 - (CHOOSE i \in odd : \A j \in odd : i <= j)
Typable(b) == TailLen(b) < MaxTail
Pushable(b) == TailLen(b) < MaxBufTail

\* The head of authenticate: the PAM client, $USER, InputHandler::new with
\* Keyb::new.  `dev` is the modifier state the device reports.
AuthStart(pamOk, userOk, xkbOk, dev) ==
    /\ pc = "auth_start"
    /\ IF ~pamOk THEN Fail("pam") /\ UNCHANGED <<keyb, buf>>
       ELSE IF ~userOk THEN Fail("user") /\ UNCHANGED <<keyb, buf>>
       ELSE IF ~xkbOk THEN Fail("xkb") /\ UNCHANGED <<keyb, buf>>
       ELSE /\ keyb' = Keyb_new(dev)
            /\ buf' = <<>>
            /\ pc' = "enter"
            /\ UNCHANGED <<result, fault>>
    /\ UNCHANGED <<xvars, colour, verdict, lastSym, dropCount, hvars>>

\* get_input is entered: set_win_color(BLACK).unwrap(), then the wait.
Enter(res) ==
    /\ pc = "enter"
    /\ LET set == set_win_color(BLACK, res)
       IN  /\ colour' = set.colour
           /\ unflushed' = set.unflushed
           /\ IF set.err
              THEN Fail("xerror")
              ELSE pc' = "input" /\ UNCHANGED <<result, fault>>
    /\ UNCHANGED <<xlog, held, ivars, lastSym, dropCount, hvars>>

\* A KeyPress event arrives in get_input's loop.  `res` is what becomes of
\* a set_win_color made on the way.
KeyPress(code, res) ==
    /\ pc = "input"
    /\ Pressable(keyb, code)
    /\ LET kb == update(keyb, code, "Down")
           sym == keycode_to_keysym(kb, code)
           ch == key_char(sym)
       IN  /\ keyb' = kb
           /\ lastSym' = sym
           /\ IF sym = XK_Return
              THEN /\ pc' = submit(get_str(buf))
                   /\ UNCHANGED <<result, fault, colour, unflushed, buf>>
              ELSE IF sym = XK_Escape
              THEN LET set == set_win_color(BLACK, res)
                   IN  /\ colour' = set.colour
                       /\ unflushed' = set.unflushed
                       /\ IF set.err
                          THEN Fail("xerror") /\ UNCHANGED buf
                          ELSE buf' = clear(buf) /\ UNCHANGED <<pc, result, fault>>
              ELSE IF sym = XK_BackSpace
              THEN /\ buf' = pop_char(buf)
                   /\ UNCHANGED <<pc, result, fault, colour, unflushed>>
              ELSE IF is_modifier_key(sym)
              THEN UNCHANGED <<pc, result, fault, colour, unflushed, buf>>
              ELSE IF ch = NoChar
              THEN /\ buf' = clear(buf)
                   /\ pc' = submit(get_str(buf'))
                   /\ UNCHANGED <<result, fault, colour, unflushed>>
              ELSE /\ Typable(buf)
                   /\ LET set == IF buf = <<>> THEN set_win_color(CYAN, res)
                                  ELSE [colour |-> colour, unflushed |-> unflushed,
                                        err |-> FALSE]
                      IN  /\ colour' = set.colour
                          /\ unflushed' = set.unflushed
                          /\ IF set.err
                             THEN Fail("xerror") /\ UNCHANGED buf
                             ELSE buf' = push_char(buf, ch) /\ UNCHANGED <<pc, result, fault>>
    /\ UNCHANGED <<xlog, held, verdict, dropCount, hvars>>

\* A KeyRelease event: the keyboard state is updated and the loop goes on.
KeyRelease(code) ==
    /\ pc = "input"
    /\ keyb' = update(keyb, code, "Up")
    /\ UNCHANGED <<pc, result, fault, xvars, colour, buf, verdict, lastSym, dropCount, hvars>>

\* Any other event: `_ => continue`.
OtherEvent ==
    /\ pc = "input"
    /\ UNCHANGED vars

\* wait_for_event returns Err: the same `_ => continue`.
WaitError ==
    /\ pc = "input"
    /\ UNCHANGED vars

\* pam_client.authenticate() answers for the submitted text.  Correct ends
\* the loop and authenticate returns Ok(()); the handler goes out of scope
\* as it is.  Incorrect paints RED.
Verify(v, res) ==
    /\ pc = "verify"
    /\ verdict' = v
    /\ IF is_ok(v)
       THEN /\ pc' = on_exit(TRUE)
            /\ result' = "ok"
            /\ UNCHANGED <<fault, colour, unflushed>>
       ELSE LET set == set_win_color(RED, res)
            IN  /\ colour' = set.colour
                /\ unflushed' = set.unflushed
                /\ IF set.err
                   THEN Fail("xerror")
                   ELSE pc' = "sleep" /\ UNCHANGED <<result, fault>>
    /\ UNCHANGED <<xlog, held, keyb, buf, lastSym, dropCount, hvars>>

\* The 500 ms are over: handler.clear(), and the loop calls get_input again.
Wake ==
    /\ pc = "sleep"
    /\ buf' = clear(buf)
    /\ verdict' = "none"
    /\ pc' = "enter"
    /\ UNCHANGED <<result, fault, xvars, colour, keyb, lastSym, dropCount, hvars>>

(***************************************************************************)
(* Drop for Lock.                                                          *)
(***************************************************************************)
drop_requests == <<"FreeCursor", "UngrabKeyboard", "UngrabPointer", "DestroyWindow">>

\* What each request of drop gives back.
released_by(req) ==
    CASE req = "FreeCursor" -> "cursor"
      [] req = "UngrabKeyboard" -> "keyboard"
      [] req = "UngrabPointer" -> "pointer"
      [] req = "DestroyWindow" -> "window"

\* The requests of drop the X server answers with an error when `h` is
\* what is held: FreeCursor and DestroyWindow name the ids Lock::new
\* generated, which the server knows only once CreateCursor and
\* CreateWindow went through.  The ungrabs have no error.
drop_fails(h) == {req \in {"FreeCursor", "DestroyWindow"} : released_by(req) \notin h}

\* The requests drop sends when `h` is held: send_request returns a cookie
\* nobody checks, so every request is sent whatever became of the ones
\* before it.
drop_sent_checked(h) ==
    LET bad == {i \in 1..Len(drop_requests) : drop_requests[i] \in drop_fails(h)}
    IN  IF bad = {} THEN drop_requests
        ELSE SubSeq(drop_requests, 1, CHOOSE i \in bad : \A j \in bad : i <= j)
drop_sent(h) == drop_requests

\* The four requests and the flush, whose result is discarded; the
\* connection is closed with the Lock's fields.
Drop ==
    /\ pc = "drop"
    /\ xlog' = xlog \o drop_sent(held)
    /\ held' = {}
    /\ unflushed' = FALSE
    /\ dropCount' = dropCount + 1
    /\ pc' = "exited"
    /\ UNCHANGED <<result, fault, colour, ivars, lastSym, hvars>>

\* The outcomes of set_win_color that tell for a KeyPress of `code`: all of
\* them when the key paints (Escape, and a character into the empty
\* buffer), and one otherwise, since no set_win_color is called and the
\* steps of KeyPress are the same whichever is given.
Paints(code) ==
    LET sym == keycode_to_keysym(update(keyb, code, "Down"), code)
    IN  \/ sym = XK_Escape
        \/ /\ sym \notin {XK_Return, XK_BackSpace}
           /\ ~is_modifier_key(sym)
           /\ key_char(sym) # NoChar
           /\ buf = <<>>
Outcomes(code) == IF Paints(code) THEN PaintResults ELSE {"ok"}

Next ==
    \/ \E ok \in BOOLEAN : Connect(ok)
    \/ \E scr, ok \in BOOLEAN : CreateWindow(scr, ok)
    \/ \E ok \in BOOLEAN : CreateGc(ok)
    \/ \E ok \in BOOLEAN : MapWindow(ok)
    \/ \E ok \in BOOLEAN : FlushMap(ok)
    \/ \E ev \in {"Expose", "Other", "Error"} : WaitExpose(ev)
    \/ \E ok \in BOOLEAN : Fill(ok)
    \/ \E ok \in BOOLEAN : InitCursor(ok)
    \/ \E granted \in BOOLEAN : GrabCursor(granted)
    \/ \E granted \in BOOLEAN : GrabKeyboard(granted)
    \/ \E ok \in BOOLEAN : FlushGrabs(ok)
    \/ \E pamOk, userOk, xkbOk \in BOOLEAN : \E dev \in DeviceStates :
          AuthStart(pamOk, userOk, xkbOk, dev)
    \/ \E res \in PaintResults : Enter(res)
    \/ \E code \in Codes : \E res \in Outcomes(code) : KeyPress(code, res)
    \/ \E code \in Codes : KeyRelease(code)
    \/ OtherEvent
    \/ WaitError
    \/ \E v \in {"Correct", "Incorrect"} : \E res \in PaintResults : Verify(v, res)
    \/ Wake
    \/ Drop

Spec == Init /\ [][Next]_vars

\* The process keeps running: once main is being left, the drop happens.
FairSpec == Spec /\ WF_vars(Drop)

(***************************************************************************)
(* BufSpec: the operations of InputHandler on its buffer, applied in any   *)
(* order to the empty buffer of InputHandler::new, with their history.     *)
(* The rest of the state stays as Init leaves it.                          *)
(***************************************************************************)
BufInit == Init

BufPush(c) ==
    /\ Pushable(buf)
    /\ buf' = push_char(buf, c)
    /\ lastOp' = [op |-> "push", arg |-> c, before |-> buf]
    /\ IF tracked /\ Len(pushes) < MAX_BUF_SIZE
       THEN pushes' = Append(pushes, c) /\ tracked' = TRUE
       ELSE pushes' = <<>> /\ tracked' = FALSE
    /\ UNCHANGED <<pc, result, fault, xvars, colour, keyb, verdict, lastSym, dropCount>>

BufPop ==
    /\ buf' = pop_char(buf)
    /\ lastOp' = [op |-> "pop", arg |-> NoChar, before |-> buf]
    /\ pushes' = <<>>
    /\ tracked' = (buf' = <<>>)
    /\ UNCHANGED <<pc, result, fault, xvars, colour, keyb, verdict, lastSym, dropCount>>

BufClear ==
    /\ buf' = clear(buf)
    /\ lastOp' = [op |-> "clear", arg |-> NoChar, before |-> buf]
    /\ pushes' = <<>>
    /\ tracked' = TRUE
    /\ UNCHANGED <<pc, result, fault, xvars, colour, keyb, verdict, lastSym, dropCount>>

BufNext ==
    \/ \E c \in Chars : BufPush(c)
    \/ BufPop
    \/ BufClear

BufSpec == BufInit /\ [][BufNext]_vars

(***************************************************************************)
(* Properties.                                                             *)
(***************************************************************************)
Has(name) == \E i \in 1..Len(xlog) : xlog[i] = name
Count(name) == Cardinality({i \in 1..Len(xlog) : xlog[i] = name})

\* C1: main is left with Ok (the session unlocks) only by the step in which
\* PAM answers Correct for a submitted text that is not empty; no step of
\* the input loop itself, whatever the event, unlocks.
C1_UnlockOnlyAfterCorrect ==
    [][(result' = "ok" /\ result # "ok")
          => (pc = "verify" /\ get_str(buf) # <<>> /\ verdict' = "Correct")]_vars
C1_Witness == pc = "exited" /\ result = "ok" /\ verdict = "Correct" /\ buf # <<>>

\* C2: Drop::drop runs at most once, none of its four release requests is
\* sent twice, every way out of main with a Lock in hand goes through drop,
\* a process that has exited with a Lock has dropped it exactly once, and
\* a pending drop is eventually carried out.
C2_TeardownOnce ==
    /\ [](/\ dropCount <= 1
          /\ \A i \in 1..Len(drop_requests) : Count(drop_requests[i]) <= 1
          /\ (pc = "exited" /\ fault # "connect") => dropCount = 1)
    /\ [][(result = "none" /\ result' # "none" /\ fault' # "connect") => pc' = "drop"]_vars
    /\ ((pc = "drop") ~> (pc = "exited" /\ dropCount = 1))
C2_Witness ==
    /\ pc = "exited" /\ dropCount = 1 /\ result = "err" /\ fault = "xerror"
    /\ Has("CreateWindow") /\ ~Has("CreateCursor") /\ Has("DestroyWindow")

\* C3 (as claimed): whenever the input loop waits for a key, the pointer
\* grab and the keyboard grab are both held.
C3_GrabsHeldWhileWaiting == (pc = "input") => ({"pointer", "keyboard"} \subseteq held)

\* C4: a grab request is sent only after CreateWindow, MapWindow and the
\* Expose event, in that order; a fill is sent only after the Expose event;
\* and while the window is not created or not mapped no grab request has
\* been sent.
C4_GrabsAfterExpose ==
    /\ \A i \in 1..Len(xlog) :
          xlog[i] \in {"GrabPointer", "GrabKeyboard"} =>
              \E c, m, e \in 1..Len(xlog) :
                  /\ c < m /\ m < e /\ e < i
                  /\ xlog[c] = "CreateWindow" /\ xlog[m] = "MapWindow" /\ xlog[e] = "Expose"
    /\ \A i \in 1..Len(xlog) :
          xlog[i] = "PolyFillRectangle" => \E e \in 1..(i - 1) : xlog[e] = "Expose"
    /\ (pc # "exited" /\ ~({"window", "mapped"} \subseteq held))
          => (~Has("GrabPointer") /\ ~Has("GrabKeyboard"))
C4_Witness ==
    /\ pc = "auth_start" /\ Has("GrabPointer") /\ Has("GrabKeyboard")
    /\ Has("PolyFillRectangle")

\* C5: a push_char onto a buffer of exactly MAX_BUF_SIZE bytes (the branch
\* that reports "Reached max input buffer size") leaves the buffer holding
\* the pushed character and nothing else.
C5_PushAtCapResets ==
    (lastOp.op = "push" /\ buf_len(lastOp.before) = MAX_BUF_SIZE) => buf = <<lastOp.arg>>
C5_Witness ==
    /\ lastOp.op = "push" /\ buf_len(lastOp.before) = MAX_BUF_SIZE
    /\ Len(lastOp.before) < MAX_BUF_SIZE /\ len_utf8(lastOp.arg) > 1

\* C6 (as claimed): the buffer is never longer than MAX_BUF_SIZE, measured
\* as the code measures it.
C6_BufferBounded == buf_len(buf) <= MAX_BUF_SIZE

\* C7 (as claimed): after N <= MAX_BUF_SIZE pushes onto the empty buffer
\* with no pop and no clear between them, get_str is those N characters in
\* the order pushed.
C7_PushesComeBack == (tracked /\ Len(pushes) <= MAX_BUF_SIZE) => get_str(buf) = pushes

\* C8: Return pressed on an empty buffer asks PAM nothing, paints nothing
\* (so no RED), keeps the buffer empty and goes back to get_input, which
\* paints the overlay BLACK and waits, unless the X server refuses that
\* paint.
C8_EnterOnEmpty ==
    [][/\ \A res \in PaintResults :
             (KeyPress(KC_Return, res) /\ buf = <<>>)
                 => /\ pc' = "enter" /\ buf' = <<>> /\ verdict' = "none"
                    /\ colour' = colour /\ colour' # RED /\ result' = "none"
       /\ (pc = "enter" /\ fault' = "none")
             => (pc' = "input" /\ buf' = <<>> /\ colour' = BLACK /\ verdict' = "none")]_vars
C8_Witness ==
    /\ pc = "enter" /\ lastSym = XK_Return
    /\ keyb.built /\ buf = <<>> /\ colour = BLACK
    /\ verdict = "none" /\ result = "none"

\* C9: after an Incorrect verdict the overlay is painted RED with the text
\* still in the buffer, then the buffer is cleared under the RED overlay,
\* then get_input paints BLACK, and only then is an event taken again (the
\* keyboard state, which every key event updates first, is untouched in
\* between); the loop goes on from an empty buffer.  A refused paint is the
\* only other way on.
C9_IncorrectThenRetry ==
    /\ [](pc = "sleep" => (colour = RED /\ verdict = "Incorrect" /\ buf # <<>>))
    /\ [](pc = "enter" => buf = <<>>)
    /\ [][/\ (pc = "verify" /\ verdict' = "Incorrect" /\ fault' = "none")
                => (pc' = "sleep" /\ colour' = RED /\ buf' = buf /\ keyb' = keyb)
          /\ (pc = "sleep")
                => (pc' = "enter" /\ buf' = <<>> /\ colour' = RED /\ keyb' = keyb)
          /\ (pc = "enter" /\ fault' = "none")
                => (pc' = "input" /\ buf' = <<>> /\ colour' = BLACK /\ keyb' = keyb)]_vars
C9_Witness == pc = "enter" /\ colour = RED /\ buf = <<>> /\ verdict = "none"

\* C10 (as claimed): once PAM has answered, the buffer is cleared before
\* the loop goes on or main is left.
C10_ClearedAfterVerdict ==
    [][(pc \in {"verify", "sleep"} /\ pc' \notin {"verify", "sleep"} /\ fault' = "none")
          => buf' = <<>>]_vars

\* The keys get_input resolves to a symbol that is neither Return, Escape,
\* BackSpace nor a modifier and has no character, and the keys it pushes
\* as a character.
NoCharCodes ==
    {code \in Codes :
        LET sym == keycode_to_keysym(NoKeyb, code)
        IN  /\ sym \notin {XK_Return, XK_Escape, XK_BackSpace}
            /\ ~is_modifier_key(sym)
            /\ key_char(sym) = NoChar}
CharCodes ==
    {code \in Codes :
        LET sym == keycode_to_keysym(NoKeyb, code)
        IN  /\ sym \notin {XK_Return, XK_Escape, XK_BackSpace}
            /\ ~is_modifier_key(sym)
            /\ key_char(sym) # NoChar}
Unresolvable(code) == code \in NoCharCodes
Types(code) == code \in CharCodes

\* C11 (as claimed): each of the three attempt failures, the Incorrect
\* verdict, the key press that resolves to no character and the push onto
\* a full buffer, leaves the overlay in the Failure colour RED when the X
\* server refuses nothing.
C11_FailuresPaintRed ==
    [][/\ (pc = "verify" /\ verdict' = "Incorrect" /\ fault' = "none") => colour' = RED
       /\ \A code \in Codes : \A res \in PaintResults :
             (pc = "input" /\ Unresolvable(code) /\ KeyPress(code, res) /\ fault' = "none")
                 => colour' = RED
       /\ \A code \in Codes : \A res \in PaintResults :
             (pc = "input" /\ Types(code) /\ buf_len(buf) = MAX_BUF_SIZE
                 /\ KeyPress(code, res) /\ fault' = "none") => colour' = RED]_vars

\* C12: Escape pressed while get_input waits, whatever the buffer and the
\* overlay are, leaves the buffer empty and the overlay BLACK, asks PAM
\* nothing and stays in get_input's loop, unless the X server refuses the
\* paint.
C12_EscapeResets ==
    [][\A res \in PaintResults :
          (KeyPress(KC_Escape, res) /\ fault' = "none")
              => /\ buf' = <<>> /\ colour' = BLACK /\ ~unflushed'
                 /\ pc' = "input" /\ verdict' = verdict /\ verdict' = "none"
                 /\ result' = "none"]_vars
C12_Witness ==
    /\ pc = "input" /\ lastSym = XK_Escape /\ buf = <<>> /\ colour = BLACK
    /\ KC_Control \in keyb.depressed

\* C13: pop_char on the empty buffer leaves it empty; pop_char on any other
\* buffer takes off its last character and nothing else, which after a
\* push_char is the character just pushed; clear leaves the empty buffer,
\* and clear applied to a cleared buffer changes nothing.
C13_PopAndClear ==
    /\ (lastOp.op = "pop" /\ lastOp.before = <<>>) => buf = <<>>
    /\ (lastOp.op = "pop" /\ lastOp.before # <<>>)
          => lastOp.before = Append(buf, lastOp.before[Len(lastOp.before)])
    /\ \A c \in Chars :
          /\ push_char(buf, c) = Append(pop_char(push_char(buf, c)), c)
          /\ buf_len(buf) # MAX_BUF_SIZE => pop_char(push_char(buf, c)) = buf
    /\ lastOp.op = "clear" => (buf = <<>> /\ clear(buf) = buf)
    /\ clear(buf) = <<>> /\ clear(clear(buf)) = clear(buf)
    /\ pop_char(clear(buf)) = <<>>
C13_Witness ==
    /\ lastOp.op = "pop" /\ Len(lastOp.before) > 2 /\ buf # <<>>
    /\ len_utf8(lastOp.before[Len(lastOp.before)]) > 1
    /\ len_utf8(buf[Len(buf)]) > 1

\* C14: drop sends FreeCursor, UngrabKeyboard, UngrabPointer and
\* DestroyWindow, all four and in that order, whatever is held and
\* whichever of them the X server answers with an error (each request the
\* server refuses is followed by the ones after it), and the process is
\* left after them.
C14_TeardownBestEffort ==
    [][pc = "drop"
          => /\ xlog' = xlog \o drop_requests
             /\ \A i \in 1..Len(drop_requests) :
                   drop_requests[i] \in drop_fails(held)
                       => \A j \in i..Len(drop_requests) :
                             xlog'[Len(xlog) + j] = drop_requests[j]
             /\ pc' = "exited"]_vars
C14_Witness ==
    /\ pc = "exited" /\ dropCount = 1 /\ fault = "xerror"
    /\ Has("CreateWindow") /\ ~Has("CreateGc") /\ ~Has("CreateCursor")
    /\ Len(xlog) = 1 + Len(drop_requests)
    /\ xlog[2] = "FreeCursor" /\ xlog[Len(xlog)] = "DestroyWindow"

\* C15: a key press that resolves to no character (and is not Return,
\* Escape, BackSpace or a modifier) empties the buffer and ends get_input
\* without a failure and without asking PAM; PAM is asked only for a text
\* ended by Return; and get_input is entered, and waits again, with the
\* buffer empty.
C15_UnresolvableEndsAttempt ==
    [][/\ pc = "input" =>
             \A code \in Codes :
                (Unresolvable(code) /\ lastSym' = keycode_to_keysym(keyb', code)) =>
                   \A res \in PaintResults :
                      KeyPress(code, res)
                          => /\ buf' = <<>> /\ pc' = "enter"
                             /\ verdict' = "none" /\ result' = "none" /\ fault' = "none"
       /\ pc' = "verify" => (lastSym' = XK_Return /\ buf' # <<>>)
       /\ pc' = "enter" => buf' = <<>>
       /\ (pc = "enter" /\ pc' = "input") => buf' = <<>>]_vars
C15_Witness ==
    /\ pc = "enter" /\ lastSym = XK_F1 /\ colour = CYAN /\ buf = <<>>
    /\ verdict = "none" /\ result = "none"

\* C16: whenever the session blocks in get_input's wait_for_event or sleeps
\* the 500 ms under RED, nothing is left unflushed in the connection and
\* the overlay shows the colour of the last set_win_color: BLACK or CYAN
\* in the wait, RED in the sleep.
C16_ColourFlushedBeforeWait ==
    /\ pc = "input" => (~unflushed /\ colour \in {BLACK, CYAN})
    /\ pc = "sleep" => (~unflushed /\ colour = RED)
C16_Witness ==
    /\ pc = "sleep" /\ colour = RED /\ ~unflushed /\ lastSym = XK_Return
    /\ Len(buf) > 1

\* C17 (as claimed): the keyboard state is built after the overlay is
\* shown and before the grabs are requested, so once a grab has been
\* requested the keyboard state exists.
C17_KeybBeforeGrabs ==
    /\ keyb.built => Has("MapWindow")
    /\ (Has("GrabPointer") \/ Has("GrabKeyboard")) => keyb.built

\* C17 (amended): lock_screen runs create, show, grab, flush and builds no
\* keyboard state; the keyboard state is built, with nothing depressed, by
\* the step that starts authenticate, after CreateWindow, MapWindow, the
\* Expose event, GrabPointer and GrabKeyboard in that order and with the
\* connection flushed, and it exists from then on whenever get_input runs.
C17_KeybAfterGrabs ==
    [][/\ (~keyb.built /\ keyb'.built)
             => /\ pc = "auth_start" /\ pc' = "enter"
                /\ keyb'.depressed = {}
                /\ ~unflushed
                /\ \E c, m, e, p, k \in 1..Len(xlog) :
                      /\ c < m /\ m < e /\ e < p /\ p < k
                      /\ xlog[c] = "CreateWindow" /\ xlog[m] = "MapWindow"
                      /\ xlog[e] = "Expose" /\ xlog[p] = "GrabPointer"
                      /\ xlog[k] = "GrabKeyboard"
       /\ keyb.built => keyb'.built
       /\ pc' \in {"enter", "input", "verify", "sleep"} => keyb'.built
       /\ pc' \in {lock_screen_steps[i] : i \in 1..Len(lock_screen_steps)} \cup {"auth_start"}
             => ~keyb'.built]_vars
C17_Witness ==
    /\ pc = "enter" /\ keyb.built /\ keyb.depressed = {} /\ lastSym = NoKey
    /\ Has("GrabPointer") /\ Has("GrabKeyboard") /\ ~unflushed

\* The stage that acquires what `req` releases has completed: the cursor
\* or the window was created, the grab was requested.
acquired(req) ==
    CASE req = "FreeCursor" -> "cursor" \in held
      [] req = "UngrabKeyboard" -> Has("GrabKeyboard")
      [] req = "UngrabPointer" -> Has("GrabPointer")
      [] req = "DestroyWindow" -> "window" \in held

\* C18 (as claimed): drop sends a release request only for what was
\* acquired: no FreeCursor without a created cursor, no ungrab without the
\* grab requested, no DestroyWindow without a created window.
C18_ReleasesOnlyAcquired ==
    [][pc = "drop"
          => \A i \in (Len(xlog) + 1)..Len(xlog') : acquired(xlog'[i])]_vars

\* The keys get_input resolves to a modifier.
ModCodes == {code \in Codes : is_modifier_key(keycode_to_keysym(NoKeyb, code))}

\* C19: in get_input's wait, a KeyRelease, a KeyPress of a modifier, any
\* other event and an Err of wait_for_event each leave the buffer, the
\* overlay and the connection as they are, ask PAM nothing and stay in the
\* wait with no failure; the press of a modifier adds it to the depressed
\* keys and counts, a release takes one press back and the release of the
\* last press takes the key out, the other two leave the keyboard state
\* alone, and the keyboard state changes in the wait by a KeyPress or a
\* KeyRelease only.  (A KeyRelease that leaves the keyboard state as
\* it was is a step that changes nothing at all.)
C19_IgnoredEvents ==
    [][pc = "input" =>
          /\ keyb' # keyb
                => \A code \in Codes :
                      KeyRelease(code)
                          => /\ UNCHANGED <<buf, colour, unflushed, verdict, pc, result, fault>>
                             /\ keyb'.presses[code] = keyb.presses[code] - 1
                             /\ keyb'.depressed =
                                   IF keyb'.presses[code] = 0
                                   THEN keyb.depressed \ {code} ELSE keyb.depressed
          /\ \A code \in ModCodes : \A res \in PaintResults :
                (lastSym' = keycode_to_keysym(keyb', code) /\ KeyPress(code, res))
                    => /\ UNCHANGED <<buf, colour, unflushed, verdict, pc, result, fault>>
                       /\ keyb'.presses[code] = keyb.presses[code] + 1
                       /\ keyb'.depressed = keyb.depressed \cup {code}
          /\ (OtherEvent \/ WaitError)
                => UNCHANGED <<buf, colour, unflushed, verdict, pc, result, fault, keyb>>
          /\ keyb' # keyb
                => \E code \in Codes :
                      KeyRelease(code) \/ \E res \in PaintResults : KeyPress(code, res)]_vars
C19_Witness ==
    /\ pc = "input" /\ lastSym = XK_Control_L /\ KC_Control \notin keyb.depressed
    /\ Len(buf) > 1 /\ colour = CYAN

\* C20 (as claimed): whenever get_input waits for an event, the overlay is
\* CYAN exactly when the buffer is not empty and BLACK exactly when it is
\* empty.
C20_ColourTracksBuffer ==
    pc = "input" => /\ (colour = CYAN) <=> (buf # <<>>)
                    /\ (colour = BLACK) <=> (buf = <<>>)

====
